---- MODULE Spec2Model ----
(***************************************************************************)
(* Model of main.py of pypi-scorecards: the catalog load, the parallel     *)
(* scorecard fetch on the thread pool, the aggregation pass and the two    *)
(* report writers.                                                         *)
(*                                                                         *)
(* Representation.  Package names and check names are strings in the       *)
(* program; here a name is the natural number giving its rank in string    *)
(* order, so "sorted" and the name tie-break of the ordering are integer   *)
(* comparisons.  A float that is the quotient of two integers is kept as   *)
(* the exact pair <<numerator, denominator>>.  Python's None is the        *)
(* integer None below, which no score equals.  A line of text is the       *)
(* sequence of its tokens, the separators "," and "|" being tokens.        *)
(***************************************************************************)
EXTENDS Integers, Sequences, FiniteSets, TLC

VARIABLES
    pc,             \* position of main()
    error,          \* exception that ended main(), "none" while it runs
    catalog_status, \* HTTP status of the catalog response, 0 before the GET
    packages,       \* the module-level dict: name -> Package
    keys,           \* insertion order of the keys of packages
    task,           \* per package: the future and the position of its fetch
    reported,       \* history: per package and check name, the largest score
                    \* read so far from the response, None if none was read
    wait_i,         \* number of results main() has consumed from the map
    check_names,    \* the sorted list built by main()
    csv,            \* lines of data/<today>.csv
    readme,         \* lines of README.md
    sorted_pkgs     \* the list sort_packages returned to the README loop

vars == <<pc, error, catalog_status, packages, keys, task, reported, wait_i,
          check_names, csv, readme, sorted_pkgs>>

----------------------------------------------------------------------------
(* Bounds of the model *)

MaxRows == 2            \* rows in the catalog response
ReadmeSmallPackages == 20   \* the small package sets given to the writers
ReadmeMaxPackages == 1001   \* the largest package set given to the writers

(* Input alphabets *)

PackageNames == {1, 2}
Downloads == {50, 100}
CheckNames == {1, 2}
Scores == {-1, 0, 6, 10}
CatalogStatuses == {200, 500}
ScorecardStatuses == {200, 404}

None == -99

----------------------------------------------------------------------------
(* Package dataclass *)

Package(name, downloads) ==
    [name |-> name, downloads |-> downloads, overall |-> <<0, 1>>,
     checks |-> <<>>]

(* dict helpers *)

DictGet(d, k, default) == IF k \in DOMAIN d THEN d[k] ELSE default

DictSet(d, k, v) == [x \in (DOMAIN d) \cup {k} |-> IF x = k THEN v ELSE d[x]]

DictSetDefault_Assign(d, k, v) == DictSet(d, k, v)

DictSetDefault(d, k, v) == IF k \in DOMAIN d THEN d ELSE DictSet(d, k, v)

(* "x or 0.0": None and 0 are falsy *)
OrZero(v) == IF v = None \/ v = 0 THEN 0 ELSE v

(* sorted(set of names) *)
SortedNames(S) ==
    [i \in 1..Cardinality(S) |->
        CHOOSE x \in S : Cardinality({y \in S : y < x}) = i - 1]

----------------------------------------------------------------------------
(* fetch_checks_for_package: the body of the inner loop *)

MergeCheck_Overwrite(checks, check_name, check_score) ==
    IF check_score < 0 THEN checks
    ELSE DictSet(checks, check_name, check_score)

MergeCheck(checks, check_name, check_score) ==
    IF check_score < 0 THEN checks
    ELSE IF OrZero(DictGet(checks, check_name, 0)) > check_score THEN checks
    ELSE DictSet(checks, check_name, check_score)

----------------------------------------------------------------------------
(* fill_in_missing_checks *)

RECURSIVE SetDefaults(_, _, _)
SetDefaults(checks, names, i) ==
    IF i > Len(names) THEN checks
    ELSE SetDefaults(DictSetDefault(checks, names[i], None), names, i + 1)

RECURSIVE SumValues(_, _)
SumValues(checks, ks) ==
    IF ks = {} THEN 0
    ELSE LET k == CHOOSE x \in ks : TRUE
         IN OrZero(checks[k]) + SumValues(checks, ks \ {k})

OverallOf_PresentOnly(checks) ==
    <<SumValues(checks, DOMAIN checks),
      Cardinality({k \in DOMAIN checks : checks[k] # None})>>

OverallOf(checks) ==
    <<SumValues(checks, DOMAIN checks), Cardinality(DOMAIN checks)>>

(* The loop over packages.values(): it stops at the first package whose    *)
(* checks are empty after the setdefault calls, where len(package.checks)  *)
(* is 0 and the division raises.  The result is the dict and the exception *)
(* that stopped the loop, if any.                                          *)
fill_in_missing_checks(pkgs, order, names) ==
    LET filled == [p \in DOMAIN pkgs |-> SetDefaults(pkgs[p].checks, names, 1)]
        raising == {i \in 1..Len(order) : DOMAIN filled[order[i]] = {}}
        stop == IF raising = {} THEN Len(order) + 1
                ELSE CHOOSE i \in raising : \A j \in raising : i <= j
        reached == {order[i] : i \in 1..(stop - 1)}
    IN [packages |->
            [p \in DOMAIN pkgs |->
                IF p \in reached
                THEN [pkgs[p] EXCEPT !.checks = filled[p],
                                     !.overall = OverallOf(filled[p])]
                ELSE pkgs[p]],
        error |-> IF raising = {} THEN "none" ELSE "ZeroDivisionError"]

----------------------------------------------------------------------------
(* Text of the reports *)

Digit(d) == ToString(d)

(* f"{x:.2f}" for x = overall[1] / overall[2]: the nearest hundredth *)
Fmt2f(overall) ==
    LET q == (200 * overall[1] + overall[2]) \div (2 * overall[2])
    IN ToString(q \div 100) \o "." \o Digit((q % 100) \div 10) \o Digit(q % 10)

(* f"{n:,}" *)
FmtThousands(n) ==
    IF n < 1000 THEN ToString(n)
    ELSE ToString(n \div 1000) \o "," \o Digit((n % 1000) \div 100)
         \o Digit((n % 100) \div 10) \o Digit(n % 10)

NameText(name) == "pkg" \o ToString(name)

CheckText(check_name) == "check" \o ToString(check_name)

Dash == "EN DASH"

check_value_or_dash(check_value, empty) ==
    IF check_value # None THEN ToString(check_value) ELSE empty

(* sep.join(parts): the parts with one separator token between neighbours *)
RECURSIVE JoinFrom(_, _, _)
JoinFrom(parts, sep, i) ==
    IF i > Len(parts) THEN <<>>
    ELSE IF i = Len(parts) THEN <<parts[i]>>
    ELSE <<parts[i], sep>> \o JoinFrom(parts, sep, i + 1)

Join(parts, sep) == JoinFrom(parts, sep, 1)

----------------------------------------------------------------------------
(* sort_packages: sorted(..., key=(-overall, -downloads, name)) *)

KeyLess(a, b) ==
    \/ a.overall[1] * b.overall[2] > b.overall[1] * a.overall[2]
    \/ /\ a.overall[1] * b.overall[2] = b.overall[1] * a.overall[2]
       /\ \/ a.downloads > b.downloads
          \/ a.downloads = b.downloads /\ a.name < b.name

(* rank[p] is the number of packages sorted before p; comparing rank with  *)
(* the empty tuple makes TLC tabulate it once.                             *)
sort_packages(pkgs) ==
    LET names == DOMAIN pkgs
        rank == [p \in names |->
                    Cardinality({q \in names : KeyLess(pkgs[q], pkgs[p])})]
    IN IF rank = <<>> THEN <<>>
       ELSE [i \in 1..Cardinality(names) |->
                pkgs[CHOOSE p \in names : rank[p] = i - 1]]

----------------------------------------------------------------------------
(* write_packages_to_csv *)

CsvHeader(names) ==
    <<"Package", ",", "Downloads", ",", "Overall", ",">>
    \o Join([i \in 1..Len(names) |-> CheckText(names[i])], ",")

CsvRow(package, names) ==
    <<NameText(package.name), ",", ToString(package.downloads), ",",
      Fmt2f(package.overall), ",">>
    \o Join([i \in 1..Len(names) |->
                check_value_or_dash(package.checks[names[i]], "")], ",")

CsvLines(pkgs, names) ==
    LET s == sort_packages(pkgs)
    IN <<CsvHeader(names)>> \o [i \in 1..Len(s) |-> CsvRow(s[i], names)]

(* write_packages_to_readme *)

ReadmeProse == <<"# OpenSSF Scorecards for top Python packages">>

ReadmeHeader(names) ==
    <<"Package", "|", "Downloads", "|", "Overall", "|">>
    \o Join([i \in 1..Len(names) |-> CheckText(names[i])], "|")

ReadmeRule(names) == <<"-">> \o [i \in 1..(Len(names) + 2) |-> "|-"]

ReadmeRow(package, names) ==
    <<NameText(package.name), "|", FmtThousands(package.downloads), "|",
      Fmt2f(package.overall), "|">>
    \o Join([i \in 1..Len(names) |->
                check_value_or_dash(package.checks[names[i]], Dash)], "|")

ReadmeLastIndex == 999

(* "Limit to 1000" *)
ReadmeRowCap == 1000

ReadmeBreak_OffByOne(i) == i = ReadmeLastIndex + 1

ReadmeBreak(i) == i = ReadmeLastIndex

(* lines 96-103: the loop writes the rows of indices 0, 1, ... and stops   *)
(* after the first index at which it breaks, or when the list ends         *)
ReadmeRowCount(s) ==
    LET breaks == {i \in 0..(Len(s) - 1) : ReadmeBreak(i)}
    IN IF breaks = {} THEN Len(s)
       ELSE 1 + CHOOSE i \in breaks : \A j \in breaks : i <= j

ReadmeLines(s, names) ==
    <<ReadmeProse, ReadmeHeader(names), ReadmeRule(names)>>
    \o [k \in 1..ReadmeRowCount(s) |-> ReadmeRow(s[k], names)]

----------------------------------------------------------------------------
(* The catalog response and the dict comprehension of main() *)

Rows == [project : PackageNames, download_count : Downloads]

RowSeqs == UNION {[1..n -> Rows] : n \in 0..MaxRows}

CatalogBodies ==
    {[kind |-> k, rows |-> <<>>] : k \in {"Unparsable", "NoRows"}}
    \cup {[kind |-> "Rows", rows |-> r] : r \in RowSeqs}

(* keys in the order of their first row; the value of the last row wins *)
RECURSIVE KeyOrder(_, _)
KeyOrder(rows, i) ==
    IF i > Len(rows) THEN <<>>
    ELSE IF \E j \in 1..(i - 1) : rows[j].project = rows[i].project
         THEN KeyOrder(rows, i + 1)
         ELSE <<rows[i].project>> \o KeyOrder(rows, i + 1)

BuildPackages(rows) ==
    [name \in {rows[i].project : i \in 1..Len(rows)} |->
        LET last == CHOOSE i \in 1..Len(rows) :
                        /\ rows[i].project = name
                        /\ \A j \in (i + 1)..Len(rows) : rows[j].project # name
        IN Package(name, rows[last].download_count)]

----------------------------------------------------------------------------
(* The futures of thread_pool.map and the locals of each fetch *)

NewTask == [st |-> "pending", status |-> 0, inproj |-> FALSE, exc |-> "none"]

Returned(t) == [t EXCEPT !.st = "done", !.inproj = FALSE]

Raised(t, e) == [t EXCEPT !.st = "raised", !.exc = e, !.inproj = FALSE]

(* future.result() returns or raises once the call has finished *)
FutureReady_NoBlock(t) == TRUE

FutureReady(t) == t.st \in {"done", "raised"}

(* the finally clause of the map iterator cancels what has not started *)
CancelPending(tasks) ==
    [p \in DOMAIN tasks |->
        IF tasks[p].st = "pending" THEN [tasks[p] EXCEPT !.st = "cancelled"]
        ELSE tasks[p]]

Max2(a, b) == IF a >= b THEN a ELSE b

(* history: the largest score read so far for the check *)
Report(rep, check_name, check_score) ==
    [rep EXCEPT ![check_name] =
        IF @ = None THEN check_score ELSE Max2(@, check_score)]

----------------------------------------------------------------------------
(* main() *)

Init ==
    /\ pc = "catalog"
    /\ error = "none"
    /\ catalog_status = 0
    /\ packages = <<>>
    /\ keys = <<>>
    /\ task = <<>>
    /\ reported = <<>>
    /\ wait_i = 0
    /\ check_names = <<>>
    /\ csv = <<>>
    /\ readme = <<>>
    /\ sorted_pkgs = <<>>

Fail(e) == pc' = "failed" /\ error' = e

(* lines 118-122: the status of the response is not looked at *)
LoadCatalog ==
    /\ pc = "catalog"
    /\ \E status \in CatalogStatuses, body \in CatalogBodies :
        /\ catalog_status' = status
        /\ \/ /\ body.kind = "Unparsable"
              /\ Fail("JSONDecodeError")
              /\ UNCHANGED <<packages, keys>>
           \/ /\ body.kind = "NoRows"
              /\ Fail("KeyError")
              /\ UNCHANGED <<packages, keys>>
           \/ /\ body.kind = "Rows"
              /\ packages' = BuildPackages(body.rows)
              /\ keys' = KeyOrder(body.rows, 1)
              /\ pc' = "map"
              /\ UNCHANGED error
    /\ UNCHANGED <<task, reported, wait_i, check_names, csv, readme,
                   sorted_pkgs>>

(* line 124: one call is submitted per key *)
MapSubmit ==
    /\ pc = "map"
    /\ task' = [p \in DOMAIN packages |-> NewTask]
    /\ reported' = [p \in DOMAIN packages |-> [c \in CheckNames |-> None]]
    /\ wait_i' = 0
    /\ pc' = "wait"
    /\ UNCHANGED <<error, catalog_status, packages, keys, check_names, csv,
                   readme, sorted_pkgs>>

(* lines 125-126: the next result, in the order of the keys *)
WaitResult ==
    /\ pc = "wait"
    /\ wait_i < Len(keys)
    /\ LET t == task[keys[wait_i + 1]]
       IN /\ FutureReady(t)
          /\ IF t.st = "raised"
             THEN /\ Fail(t.exc)
                  /\ task' = CancelPending(task)
                  /\ UNCHANGED wait_i
             ELSE /\ wait_i' = wait_i + 1
                  /\ UNCHANGED <<pc, error, task>>
    /\ UNCHANGED <<catalog_status, packages, keys, reported, check_names, csv,
                   readme, sorted_pkgs>>

(* lines 125-126: the iterator is exhausted *)
WaitDone ==
    /\ pc = "wait"
    /\ wait_i = Len(keys)
    /\ pc' = "union"
    /\ UNCHANGED <<error, catalog_status, packages, keys, task, reported,
                   wait_i, check_names, csv, readme, sorted_pkgs>>

(* lines 129-132 *)
UnionNames ==
    /\ pc = "union"
    /\ check_names' =
          SortedNames(UNION {DOMAIN packages[p].checks : p \in DOMAIN packages})
    /\ pc' = "fill"
    /\ UNCHANGED <<error, catalog_status, packages, keys, task, reported,
                   wait_i, csv, readme, sorted_pkgs>>

(* line 133 *)
Fill ==
    /\ pc = "fill"
    /\ LET r == fill_in_missing_checks(packages, keys, check_names)
       IN /\ packages' = r.packages
          /\ IF r.error = "none"
             THEN pc' = "csv" /\ UNCHANGED error
             ELSE Fail(r.error)
    /\ UNCHANGED <<catalog_status, keys, task, reported, wait_i, check_names,
                   csv, readme, sorted_pkgs>>

(* line 136 *)
WriteCsv ==
    /\ pc = "csv"
    /\ csv' = CsvLines(packages, check_names)
    /\ pc' = "readme"
    /\ UNCHANGED <<error, catalog_status, packages, keys, task, reported,
                   wait_i, check_names, readme, sorted_pkgs>>

(* line 139 *)
WriteReadme ==
    /\ pc = "readme"
    /\ sorted_pkgs' = sort_packages(packages)
    /\ readme' = ReadmeLines(sorted_pkgs', check_names)
    /\ pc' = "done"
    /\ UNCHANGED <<error, catalog_status, packages, keys, task, reported,
                   wait_i, check_names, csv>>

----------------------------------------------------------------------------
(* fetch_checks_for_package(package_name), run by a worker of the pool.    *)
(* The body of the response is drawn as the loops reach it, element by     *)
(* element, so a response holds any number of projects and of checks.      *)

TopKinds == {"Unparsable", "WrongShape", "MissingKey", "Projects"}

ProjectKinds == {"End", "NoScorecard", "NoCheckKey", "WrongShape", "Scorecard"}

CheckKinds == {"End", "MissingKey", "WrongShape", "Check"}

MainVars == <<pc, error, catalog_status, keys, wait_i, check_names, csv,
              readme, sorted_pkgs>>

(* lines 31-36 *)
FetchRequest(package_name) ==
    /\ task[package_name].st = "pending"
    /\ \E status \in ScorecardStatuses, kind \in TopKinds :
        LET t == [task[package_name] EXCEPT !.status = status]
        IN task' = [task EXCEPT ![package_name] =
                CASE status # 200 -> Returned(t)
                  [] kind = "Unparsable" -> Raised(t, "JSONDecodeError")
                  [] kind = "WrongShape" -> Raised(t, "TypeError")
                  [] kind = "MissingKey" -> Returned(t)
                  [] OTHER -> [t EXCEPT !.st = "running"]]
    /\ UNCHANGED <<packages, reported>>
    /\ UNCHANGED MainVars

(* lines 38-40: the next element of data["version"]["projects"] *)
FetchProject(package_name) ==
    /\ task[package_name].st = "running"
    /\ ~task[package_name].inproj
    /\ \E kind \in ProjectKinds :
        LET t == task[package_name]
        IN task' = [task EXCEPT ![package_name] =
                CASE kind = "End" -> Returned(t)
                  [] kind = "NoScorecard" -> t
                  [] kind = "NoCheckKey" -> Returned(t)
                  [] kind = "WrongShape" -> Raised(t, "TypeError")
                  [] OTHER -> [t EXCEPT !.inproj = TRUE]]
    /\ UNCHANGED <<packages, reported>>
    /\ UNCHANGED MainVars

(* line 36: the Package the call writes to *)
TargetOf_First(package_name) == keys[1]

TargetOf(package_name) == package_name

(* lines 41-52: the next element of scorecard["check"] *)
FetchCheck(package_name) ==
    /\ task[package_name].st = "running"
    /\ task[package_name].inproj
    /\ \E kind \in CheckKinds, check_name \in CheckNames, check_score \in Scores :
        LET t == task[package_name]
            target == TargetOf(package_name)
        IN /\ kind # "Check" =>
                 /\ check_name = CHOOSE c \in CheckNames : TRUE
                 /\ check_score = CHOOSE s \in Scores : TRUE
           /\ task' = [task EXCEPT ![package_name] =
                CASE kind = "End" -> [t EXCEPT !.inproj = FALSE]
                  [] kind = "MissingKey" -> Returned(t)
                  [] kind = "WrongShape" -> Raised(t, "TypeError")
                  [] OTHER -> t]
           /\ IF kind = "Check"
              THEN /\ packages' = [packages EXCEPT ![target].checks =
                          MergeCheck(@, check_name, check_score)]
                   /\ reported' = [reported EXCEPT ![package_name] =
                          Report(@, check_name, check_score)]
              ELSE UNCHANGED <<packages, reported>>
    /\ UNCHANGED MainVars

Fetch == \E package_name \in DOMAIN task :
            \/ FetchRequest(package_name)
            \/ FetchProject(package_name)
            \/ FetchCheck(package_name)

Next ==
    \/ LoadCatalog
    \/ MapSubmit
    \/ WaitResult
    \/ WaitDone
    \/ UnionNames
    \/ Fill
    \/ WriteCsv
    \/ WriteReadme
    \/ Fetch

Spec == Init /\ [][Next]_vars

----------------------------------------------------------------------------
(* Runs over large catalogs, taken up at line 128: the catalog held n     *)
(* packages and every fetch has returned.  Package k reported at most one  *)
(* check; values and downloads cycle so that each of the three parts of    *)
(* the sort key decides some comparisons.                                  *)

ReadmeSizes ==
    (0..ReadmeSmallPackages)
    \cup {ReadmeLastIndex, ReadmeLastIndex + 1, ReadmeMaxPackages}

LargeValue(k) == <<0, 6, 10, None>>[((k - 1) % 4) + 1]

LargeChecks(k) == IF LargeValue(k) = None THEN <<>> ELSE [c \in {1} |-> LargeValue(k)]

LargeCatalog(n) ==
    [k \in 1..n |-> [Package(k, 50 + 50 * ((k \div 4) % 2))
                        EXCEPT !.checks = LargeChecks(k)]]

InitReadme ==
    \E n \in ReadmeSizes :
        /\ pc = "union"
        /\ error = "none"
        /\ catalog_status = 200
        /\ packages = LargeCatalog(n)
        /\ keys = [k \in 1..n |-> k]
        /\ task = [k \in 1..n |-> [Returned(NewTask) EXCEPT !.status = 200]]
        /\ reported = [k \in 1..n |->
                         [c \in CheckNames |-> DictGet(LargeChecks(k), c, None)]]
        /\ wait_i = n
        /\ check_names = <<>>
        /\ csv = <<>>
        /\ readme = <<>>
        /\ sorted_pkgs = <<>>

NextReadme ==
    \/ UnionNames
    \/ Fill
    \/ WriteCsv
    \/ WriteReadme

SpecReadme == InitReadme /\ [][NextReadme]_vars

----------------------------------------------------------------------------
(* Properties *)

Fetching == pc \in {"wait", "union", "fill"}

Aggregated == pc \in {"csv", "readme", "done"}

NameSet(names) == {names[i] : i \in 1..Len(names)}

(* what a fetch that read the scores summarised by rep stores, by the      *)
(* max-merge policy: the largest score of each check that has a            *)
(* non-negative one                                                        *)
MaxMerge(rep) == [c \in {x \in DOMAIN rep : rep[x] # None /\ rep[x] >= 0} |-> rep[c]]

(* C1: a scorecard response with status 200 and a malformed body never     *)
(* makes fetch_checks_for_package raise: no future ends with an exception, *)
(* none is cancelled, and main() is not ended by a fetch's exception.      *)
C1_MalformedBodyNeverPropagates ==
    /\ \A p \in DOMAIN task : task[p].st \notin {"raised", "cancelled"}
    /\ task # <<>> => error \notin {"JSONDecodeError", "TypeError"}

(* C2: when the catalog response has a status other than 200 the run       *)
(* aborts: no Package is created, no fetch is submitted, no report is      *)
(* written.                                                                *)
C2_CatalogNon200Aborts ==
    catalog_status \notin {0, 200} =>
        /\ pc = "failed"
        /\ packages = <<>>
        /\ task = <<>>
        /\ csv = <<>>
        /\ readme = <<>>

(* C3: in a run whose catalog loaded with status 200 and is not empty, a   *)
(* package whose fetch returned 404 does not stop the run (the aggregation *)
(* raises nothing), and after the aggregation all its checks are None and  *)
(* its overall is 0.0.                                                     *)
C3_NotFoundScoresZero ==
    \A p \in DOMAIN task :
        (catalog_status = 200 /\ task[p].status = 404) =>
            /\ error # "ZeroDivisionError"
            /\ Aggregated =>
                  /\ DOMAIN packages[p].checks = NameSet(check_names)
                  /\ \A c \in DOMAIN packages[p].checks :
                        packages[p].checks[c] = None
                  /\ packages[p].overall[1] = 0

(* C4: while the fetches run and until the fill, the value stored for a    *)
(* check is the largest non-negative score read for it; a check for which  *)
(* only negative scores (or none) were read is not a key, and no stored    *)
(* value is negative.                                                      *)
C4_StoredIsMaxOfNonNegative ==
    \A p \in DOMAIN task :
        /\ Fetching \/ pc = "failed" =>
              packages[p].checks = MaxMerge(reported[p])
        /\ \A c \in DOMAIN packages[p].checks :
              packages[p].checks[c] = None \/ packages[p].checks[c] >= 0

C4_Witness ==
    \E p \in DOMAIN task :
        /\ task[p].st = "done"
        /\ reported[p] = [c \in CheckNames |-> IF c = 1 THEN 10 ELSE -1]
        /\ packages[p].checks = [c \in {1} |-> 10]

(* C5: after the aggregation every package's checks have exactly the       *)
(* names of check_names as keys, so their number is len(check_names); a    *)
(* value the fetch recorded is unchanged and every other key holds None.   *)
C5_FillIsTotal ==
    Aggregated =>
        \A p \in DOMAIN packages :
            /\ DOMAIN packages[p].checks = NameSet(check_names)
            /\ Cardinality(DOMAIN packages[p].checks) = Len(check_names)
            /\ \A c \in DOMAIN packages[p].checks :
                  packages[p].checks[c] =
                      IF c \in DOMAIN MaxMerge(reported[p])
                      THEN MaxMerge(reported[p])[c] ELSE None

C5_Witness ==
    /\ pc = "csv"
    /\ \E p, q \in DOMAIN packages :
          /\ reported[p] = [c \in CheckNames |-> IF c = 1 THEN 0 ELSE None]
          /\ packages[p].checks = [c \in CheckNames |-> IF c = 1 THEN 0 ELSE None]
          /\ packages[q].checks[2] = 10

(* C6: the union, the fill and the report writers run only when every      *)
(* submitted fetch has returned: none is pending or running.               *)
C6_BarrierBeforeAggregation ==
    (pc \in {"union", "fill"} \/ Aggregated \/ error = "ZeroDivisionError") =>
        /\ DOMAIN task = DOMAIN packages
        /\ \A p \in DOMAIN task : task[p].st = "done"

C6_Witness ==
    /\ pc = "union"
    /\ Cardinality(DOMAIN task) = 2
    /\ \A p \in DOMAIN task : task[p].st = "done" /\ packages[p].checks # <<>>

OneTaskPerKey ==
    task # <<>> =>
        /\ DOMAIN task = DOMAIN packages
        /\ NameSet(keys) = DOMAIN packages
        /\ Len(keys) = Cardinality(DOMAIN packages)

AloneResult ==
    \A p \in DOMAIN task :
        (pc = "wait" /\ task[p].st = "done") =>
            packages[p].checks = MaxMerge(reported[p])

KeysFixed ==
    task # <<>> => (DOMAIN packages' = DOMAIN packages /\ keys' = keys)

OwnWritesOnly ==
    \A p \in DOMAIN task :
        (pc # "fill" /\ packages'[p].checks # packages[p].checks) =>
            /\ task[p].st = "running"
            /\ reported'[p] # reported[p]
            /\ \A q \in DOMAIN task \ {p} :
                  /\ packages'[q] = packages[q]
                  /\ reported'[q] = reported[q]
                  /\ task'[q] = task[q]

(* C7: once the calls are submitted there is one per key of packages and   *)
(* the keys no longer change; a step of the fan-out that changes the       *)
(* checks of a package is a step of that package's own running call and    *)
(* touches no other call; and a call that has returned leaves the checks   *)
(* its own response gives when merged alone.                               *)
C7_DisjointWrites ==
    /\ [](OneTaskPerKey /\ AloneResult)
    /\ [][KeysFixed /\ OwnWritesOnly]_vars

C7_Witness ==
    /\ Cardinality(DOMAIN task) = 2
    /\ \A p \in DOMAIN task :
          /\ task[p].st = "running"
          /\ task[p].inproj
          /\ DOMAIN packages[p].checks = CheckNames

ReadmeDataRows == Len(readme) - 3

Min2(a, b) == IF a <= b THEN a ELSE b

(* C8: the README table holds at most 1000 package rows, exactly           *)
(* min(N, 1000) of them when the writer has finished, and they are the     *)
(* first rows of the packages in the order (-overall, -downloads, name).   *)
C8_ReadmeRowCap ==
    pc = "done" =>
        /\ ReadmeDataRows <= ReadmeRowCap
        /\ ReadmeDataRows = Min2(Cardinality(DOMAIN packages), ReadmeRowCap)
        /\ Len(sorted_pkgs) = Cardinality(DOMAIN packages)
        /\ \A k \in 1..Len(sorted_pkgs) :
              /\ sorted_pkgs[k] = packages[sorted_pkgs[k].name]
              /\ k < Len(sorted_pkgs) =>
                    LET a == sorted_pkgs[k]
                        b == sorted_pkgs[k + 1]
                        x == a.overall[1] * b.overall[2]
                        y == b.overall[1] * a.overall[2]
                    IN \/ x > y
                       \/ x = y /\ a.downloads > b.downloads
                       \/ x = y /\ a.downloads = b.downloads /\ a.name < b.name
        /\ \A k \in 1..ReadmeDataRows :
              readme[k + 3] = ReadmeRow(sorted_pkgs[k], check_names)

C8_Witness ==
    /\ pc = "done"
    /\ Cardinality(DOMAIN packages) = ReadmeRowCap + 1
    /\ ReadmeDataRows = ReadmeRowCap

(* the number of sep-separated fields of a line *)
Fields(line, sep) == 1 + Cardinality({i \in 1..Len(line) : line[i] = sep})

(* C9: the CSV header has 3 + len(check_names) comma-separated fields,     *)
(* every data row has as many, and there is one data row per package.      *)
C9_CsvFieldCounts ==
    csv # <<>> =>
        /\ Len(csv) = 1 + Cardinality(DOMAIN packages)
        /\ \A k \in 1..Len(csv) : Fields(csv[k], ",") = 3 + Len(check_names)

RECURSIVE SumOver(_, _, _)
SumOver(checks, names, i) ==
    IF i > Len(names) THEN 0
    ELSE (IF checks[names[i]] = None THEN 0 ELSE checks[names[i]])
         + SumOver(checks, names, i + 1)

(* C10: after the fill every package's overall is the sum of its check     *)
(* values, None counted as 0, over the number of names in check_names; it  *)
(* lies in [0, 10]; checks {1: None, 2: 6} under the union {1, 2} give 3.0.*)
C10_OverallIsMeanOverUnion ==
    Aggregated =>
        \A p \in DOMAIN packages :
            LET o == packages[p].overall
            IN /\ o[2] = Len(check_names)
               /\ o[1] = SumOver(packages[p].checks, check_names, 1)
               /\ 0 <= o[1] /\ o[1] <= 10 * o[2]
               /\ packages[p].checks = [c \in CheckNames |-> IF c = 1 THEN None ELSE 6]
                     => o[1] = 3 * o[2]

C10_Witness ==
    /\ pc = "done"
    /\ \E p \in DOMAIN packages :
          /\ packages[p].checks = [c \in CheckNames |-> IF c = 1 THEN None ELSE 6]
          /\ packages[p].overall = <<6, 2>>

====
